---- MODULE Spec2Model ----
(***************************************************************************)
(* Model of the rebus-puzzle game server (src/server.js): one room of the  *)
(* registry, the socket.io connections that talk to it and the timers the  *)
(* room schedules.  Every socket handler, REST handler and timer callback  *)
(* is one action; handlers run to completion, one at a time.               *)
(***************************************************************************)
EXTENDS Integers, Sequences, FiniteSets, TLC

\* ------------------------------------------------------------------ bounds
NSockets == 2        \* connections opened during a run
MaxPlayers == 2      \* player records created in the room
MaxPuzzles == 2      \* files in one upload

\* ------------------------------------------------------- program constants
DefaultTime == 30    \* timePerRound of a new room, and of start-game without one
MinBase == 50        \* calcScore: floor of the base score
FullScore == 1000    \* calcScore: base score at timeRatio 1
ShortLen == 6        \* checkGuess: answers up to this length get ShortThreshold
ShortThreshold == 2
LongThreshold == 3
CodeLen == 6         \* generateRoomCode: characters of a room code

\* ------------------------------------------------------------------ strings
\* A string is a sequence of one-character strings.
Uppers == <<"A","B","C","D","E","F","G","H","I","J","K","L","M",
            "N","O","P","Q","R","S","T","U","V","W","X","Y","Z">>
Lowers == <<"a","b","c","d","e","f","g","h","i","j","k","l","m",
            "n","o","p","q","r","s","t","u","v","w","x","y","z">>
Digits == <<"0","1","2","3","4","5","6","7","8","9">>

Range(f) == {f[i] : i \in DOMAIN f}

Min2(a, b) == IF a <= b THEN a ELSE b
Max2(a, b) == IF a >= b THEN a ELSE b

\* String.prototype.toLowerCase, one character
toLowerCase(c) ==
    IF \E i \in DOMAIN Uppers : Uppers[i] = c
    THEN Lowers[CHOOSE i \in DOMAIN Uppers : Uppers[i] = c]
    ELSE c

\* the characters /[^a-z0-9 ]/g keeps
Kept(c) == c \in Range(Lowers) \cup Range(Digits) \cup {" "}

Articles == {<<"t","h","e">>, <<"a">>, <<"a","n">>}

\* the words of a string of kept characters: its maximal runs without a space
RECURSIVE Words(_, _)
Words(str, cur) ==
    IF str = <<>> THEN (IF cur = <<>> THEN <<>> ELSE <<cur>>)
    ELSE IF Head(str) = " "
         THEN (IF cur = <<>> THEN <<>> ELSE <<cur>>) \o Words(Tail(str), <<>>)
         ELSE Words(Tail(str), Append(cur, Head(str)))

RECURSIVE Join(_)
Join(ws) ==
    IF ws = <<>> THEN <<>>
    ELSE IF Len(ws) = 1 THEN ws[1]
    ELSE ws[1] \o <<" ">> \o Join(Tail(ws))

\* normalize: lower case, drop what is not a letter, digit or space, remove
\* the whole words the/a/an, collapse runs of spaces, trim
normalize(str) ==
    LET low  == [i \in DOMAIN str |-> toLowerCase(str[i])]
        kept == SelectSeq(low, Kept)
        ws   == SelectSeq(Words(kept, <<>>), LAMBDA w : w \notin Articles)
    IN  Join(ws)

\* one row of the dp table of levenshtein, from the row above it
RECURSIVE LevRow(_, _, _, _, _)
LevRow(prev, ai, b, j, acc) ==
    IF j > Len(b) THEN acc
    ELSE LET v   == IF ai = b[j] THEN prev[j]
                    ELSE 1 + Min2(prev[j + 1], Min2(acc[j], prev[j]))
             row == Append(acc, v)
         IN  IF Len(row) = j + 1 THEN LevRow(prev, ai, b, j + 1, row) ELSE row

RECURSIVE LevRows(_, _, _, _)
LevRows(a, b, i, prev) ==
    IF i > Len(a) THEN prev
    ELSE LET row == LevRow(prev, a[i], b, 1, <<i>>)
         IN  IF Len(row) = Len(prev) THEN LevRows(a, b, i + 1, row) ELSE row

\* levenshtein(a, b) = dp[m][n]; rows are indexed from 1, so dp[i][j] is row[j+1]
levenshtein(a, b) ==
    LevRows(a, b, 1, [j \in 1..(Len(b) + 1) |-> j - 1])[Len(b) + 1]

\* String.prototype.includes
includes(s, t) ==
    \E k \in 0..(Len(s) - Len(t)) : \A i \in 1..Len(t) : s[k + i] = t[i]

\* checkGuess: similarity is the fraction num/den
Result(m, n, d) == [match |-> m, num |-> n, den |-> d]

checkGuess(guess, answer) ==
    LET g == normalize(guess)
        a == normalize(answer)
    IN  IF g = <<>> THEN Result("wrong", 0, 1)
        ELSE IF g = a THEN Result("correct", 1, 1)
        ELSE LET dist      == levenshtein(g, a)
                 maxLen    == Max2(Len(g), Len(a))
                 threshold == IF Len(a) <= ShortLen THEN ShortThreshold ELSE LongThreshold
             IN  IF dist <= threshold THEN Result("correct", maxLen - dist, maxLen)
                 ELSE IF includes(g, a) \/ includes(a, g) THEN Result("correct", 9, 10)
                 ELSE IF 10 * (maxLen - dist) >= 6 * maxLen
                      THEN Result("partial", maxLen - dist, maxLen)
                 ELSE Result("wrong", maxLen - dist, maxLen)

\* Math.round of the fraction n/d, d > 0: floor(n/d + 1/2)
Round(n, d) == (2 * n + d) \div (2 * d)

\* mutant of calcScore: a partial match costs the points it should bring
calcScorePenalty(timeRemaining, totalTime, matchType, num, den) ==
    LET base == Max2(Round(FullScore * timeRemaining, totalTime), MinBase)
    IN  IF matchType = "partial" THEN 0 - Round(base * num, 2 * den)
        ELSE base

\* mutant of calcScore: the elapsed time is taken for the remaining time
calcScoreElapsed(timeRemaining, totalTime, matchType, num, den) ==
    LET base == Max2(Round(FullScore * (totalTime - timeRemaining), totalTime), MinBase)
    IN  IF matchType = "partial" THEN Round(base * num, 2 * den)
        ELSE base

\* calcScore(timeRemaining, totalTime, matchType, similarity = num/den)
calcScore(timeRemaining, totalTime, matchType, num, den) ==
    LET base == Max2(Round(FullScore * timeRemaining, totalTime), MinBase)
    IN  IF matchType = "partial" THEN Round(base * num, 2 * den)
        ELSE base

\* ------------------------------------------------------------ model inputs
\* generateRoomCode: the alphabet, and the code made of the draws
\* Math.floor(Math.random() * chars.length), counted from 1
chars == <<"A","B","C","D","E","F","G","H","J","K","L","M","N","P","Q","R",
           "S","T","U","V","W","X","Y","Z","2","3","4","5","6","7","8","9">>
generateRoomCode(draws) == [i \in 1..CodeLen |-> chars[draws[i]]]

\* the code create-room gave the room: every draw fell on the first character
Code == generateRoomCode([i \in 1..CodeLen |-> 1])
RoomCodes == {Code}               \* roomCode arguments of the clients
Sockets == 1..NSockets            \* socket.id, in the order of connection
PlayerIds == 1..MaxPlayers        \* uuidv4().slice(0, 8), in the order of creation
\* session ids; 0 is an absent sessionId.  A token is an opaque string that
\* names no inherited property of a plain object (not "__proto__").
Tokens == 1..(MaxPlayers + 1)

AnswerCat == <<"T","h","e"," ","C","a","t">>
AnswerUnknown == <<"U","n","k","n","o","w","n">>      \* answers[i] || 'Unknown'
\* the answer uploaded with the i-th file
AnswerAt(i) == IF i % 2 = 1 THEN AnswerCat ELSE AnswerUnknown
\* guesses: right for AnswerCat, near AnswerUnknown, empty once normalized
Guesses == { <<"c","a","t","!">>,
             <<"u","n","1","k","n","o","2","n","3","4">>,
             <<"a","n">> }
RoundsArgs == {-1, 0, 1}             \* start-game rounds; 0 is falsy
UploadSizes == {0, MaxPuzzles}       \* files in an upload: none, or all of them
TimeArgs == {2}                      \* start-game timePerRound; 0 is falsy
\* Date.now() - roundStartTime, sampled in the middle of the round
Elapsed(total) == {total \div 2}

VARIABLES
    rooms,      \* the registry: room code -> room
    sockets,    \* the connections: socket.id -> fields the handlers set on it
    timers,     \* pending setTimeout callbacks of the game flow
    reapTimers, \* pending cleanup callbacks of the disconnect handler
    crashed,    \* a handler threw: the exception is uncaught
    scored,     \* history: players whose score rose since the round began
    issued,     \* history: session token -> the player id it was first bound to
    disc,       \* history: player id -> its score when it went offline (-1: it is online)
    since,      \* history: offline players reset by start-game or credited a guess since
    call        \* a call of a pure function on its own: its arguments and its result

vars == <<rooms, sockets, timers, reapTimers, crashed, scored, issued, disc, since, call>>

\* ----------------------------------------------------------------- records
\* no pure function is being called on its own
NoCall == [fn |-> "none", args |-> <<>>, result |-> <<>>]

NoSocket == 0
NoPlayer == 0
NoTimer == 0

\* create-room: the room stored in the registry
NewRoom ==
    [ hostId |-> NoSocket, puzzles |-> <<>>, players |-> <<>>, sessions |-> <<>>,
      state |-> "setup", currentRound |-> 0, totalRounds |-> 0,
      timePerRound |-> DefaultTime, roundTimer |-> NoTimer, hintTimers |-> <<>>,
      roundAnswered |-> {} ]

NewSocket == [open |-> TRUE, roomCode |-> <<>>, playerId |-> NoPlayer, isHost |-> FALSE]
ClosedSocket == [open |-> FALSE, roomCode |-> <<>>, playerId |-> NoPlayer, isHost |-> FALSE]

Ev(name) == [ev |-> name, pid |-> NoPlayer, score |-> 0, flag |-> FALSE]
EvJoined(p, sc, restored) == [ev |-> "joined", pid |-> p, score |-> sc, flag |-> restored]
EvRoundEnd(isLast) == [ev |-> "round-end", pid |-> NoPlayer, score |-> 0, flag |-> isLast]

\* What a handler works on and what it leaves: the state, in out the events it
\* emitted, in order, and whether it began a round (began) or reset the scores
\* (reset).
Now == [rooms |-> rooms, sockets |-> sockets, timers |-> timers,
        reapTimers |-> reapTimers, crashed |-> crashed,
        out |-> <<>>, began |-> FALSE, reset |-> FALSE]

Emit(w, e) == [w EXCEPT !.out = Append(@, e)]
Throw(w) == [w EXCEPT !.crashed = TRUE]
Names(w) == {w.out[i].ev : i \in DOMAIN w.out}

OnlineIds(r) == {p \in DOMAIN r.players : r.players[p].online}
\* room.puzzles[room.currentRound] is defined
HasPuzzle(r) == (r.currentRound + 1) \in DOMAIN r.puzzles
Puzzle(r) == r.puzzles[r.currentRound + 1]

\* -------------------------------------------------------------- game flow
TimerIds(ts) == {t.id : t \in ts}
\* setTimeout returns a handle no pending timer has
FreshId(used) == CHOOSE i \in 1..(Cardinality(used) + 1) :
                    i \notin used /\ \A j \in 1..(i - 1) : j \in used
Timer(id, kind) == [id |-> id, kind |-> kind, stale |-> FALSE]

\* history: the room leaves its round; what is still pending belongs to the past
LeaveRound(w) == [w EXCEPT !.timers = {[t EXCEPT !.stale = TRUE] : t \in @}]

\* mutant of clearTimers: the hint timers are forgotten, not cancelled
clearTimersKeepHints(w, code) ==
    LET r   == w.rooms[code]
        ids == IF r.roundTimer # NoTimer THEN {r.roundTimer} ELSE {}
    IN  [w EXCEPT !.timers = {t \in @ : t.id \notin ids},
                  !.rooms[code].roundTimer = NoTimer,
                  !.rooms[code].hintTimers = <<>>]

\* mutant of clearTimers: only the hint timers are cancelled
clearTimersKeepRound(w, code) ==
    LET r   == w.rooms[code]
    IN  [w EXCEPT !.timers = {t \in @ : t.id \notin Range(r.hintTimers)},
                  !.rooms[code].hintTimers = <<>>]

clearTimers(w, code) ==
    LET r   == w.rooms[code]
        ids == (IF r.roundTimer # NoTimer THEN {r.roundTimer} ELSE {}) \cup Range(r.hintTimers)
    IN  [w EXCEPT !.timers = {t \in @ : t.id \notin ids},
                  !.rooms[code].roundTimer = NoTimer,
                  !.rooms[code].hintTimers = <<>>]

startRound(w, code) ==
    LET w0 == LeaveRound(w)
        w1 == [w0 EXCEPT !.rooms[code].roundAnswered = {},
                         !.rooms[code].players =
                             [p \in DOMAIN @ |-> [@[p] EXCEPT !.guessedThisRound = FALSE]],
                         !.began = TRUE]
        w2 == clearTimers(w1, code)
        h1 == FreshId(TimerIds(w2.timers))
        h2 == FreshId(TimerIds(w2.timers) \cup {h1})
        rt == FreshId(TimerIds(w2.timers) \cup {h1, h2})
    IN  IF ~HasPuzzle(w2.rooms[code]) THEN Throw(w2)      \* puzzle.image of undefined
        ELSE [Emit(Emit(w2, Ev("new-round")), Ev("leaderboard-update")) EXCEPT
                 !.timers = @ \cup {Timer(h1, "hint1"), Timer(h2, "hint2"), Timer(rt, "round")},
                 !.rooms[code].hintTimers = <<h1, h2>>,
                 !.rooms[code].roundTimer = rt]

endRound(w, code) ==
    LET w1 == clearTimers(LeaveRound(w), code)
        r  == w1.rooms[code]
        isLast == r.currentRound >= r.totalRounds - 1
        id == FreshId(TimerIds(w1.timers))
    IN  IF ~HasPuzzle(r) THEN Throw(w1)                   \* puzzle.answer of undefined
        ELSE [Emit(w1, EvRoundEnd(isLast)) EXCEPT
                 !.timers = @ \cup {Timer(id, IF r.currentRound < r.totalRounds - 1
                                              THEN "advance" ELSE "endgame")},
                 !.rooms[code].roundTimer = id]

\* mutant of endGame: the game ends with its timers left pending
endGameKeepTimers(w, code) ==
    Emit([w EXCEPT !.rooms[code].state = "finished"], Ev("game-over"))

endGame(w, code) ==
    LET w1 == clearTimers(LeaveRound(w), code)
    IN  Emit([w1 EXCEPT !.rooms[code].state = "finished"], Ev("game-over"))

\* ---------------------------------------------------------------- handlers
\* POST /api/upload/:roomCode with n files
upload(w, code, n) ==
    IF code \notin DOMAIN w.rooms THEN w
    ELSE [w EXCEPT !.rooms[code].puzzles = [i \in 1..n |-> AnswerAt(i)],
                   !.rooms[code].totalRounds = n,
                   !.rooms[code].state = "lobby"]

hostJoin(w, s, code) ==
    IF code \notin DOMAIN w.rooms THEN Emit(w, Ev("error-msg"))
    ELSE Emit([w EXCEPT !.rooms[code].hostId = s,
                        !.sockets[s].roomCode = code,
                        !.sockets[s].isHost = TRUE],
              Ev("host-joined"))

\* mutant of NewPlayer: a new player is created as having guessed already
NewPlayerGuessed(s) ==
    [socketId |-> s, score |-> 0, online |-> TRUE, guessedThisRound |-> TRUE]

\* mutant of NewPlayer: the record starts offline
NewPlayerOffline(s) ==
    [socketId |-> s, score |-> 0, online |-> FALSE, guessedThisRound |-> FALSE]

NewPlayer(s) == [socketId |-> s, score |-> 0, online |-> TRUE, guessedThisRound |-> FALSE]

\* uuidv4(): an id nothing has yet
NewPlayerId(r) == Len(r.players) + 1
NewToken(r) == CHOOSE t \in Tokens : t \notin DOMAIN r.sessions
                                     /\ \A u \in 1..(t - 1) : u \in DOMAIN r.sessions

\* the sessionId a client sends: none, one the room issued, or one of its own
\* making, which no room has seen
SessionArgs(r) == {0} \cup DOMAIN r.sessions \cup {NewToken(r)}

\* mutant of KnownSession: no session is ever recognised
KnownSessionNever(r, sessionId) == FALSE

\* sessionId && room.sessions[sessionId], and the player it names exists
KnownSession(r, sessionId) ==
    /\ sessionId # 0
    /\ sessionId \in DOMAIN r.sessions
    /\ r.sessions[sessionId] \in DOMAIN r.players

\* mutant of RestoredScore: a reconnecting player starts from nothing
RestoredScoreZero(r, pid) == 0

\* score: existingPlayer.score
RestoredScore(r, pid) == r.players[pid].score

\* join-room, the branch of a session the room knows
Rejoin(w, s, code, sessionId) ==
    LET r   == w.rooms[code]
        pid == r.sessions[sessionId]
        w1  == Emit([w EXCEPT !.rooms[code].players[pid].socketId = s,
                              !.rooms[code].players[pid].online = TRUE,
                              !.sockets[s].roomCode = code,
                              !.sockets[s].playerId = pid],
                    EvJoined(pid, RestoredScore(r, pid), TRUE))
        w2  == IF r.state # "playing" THEN w1
               ELSE IF ~HasPuzzle(r) THEN Throw(w1)       \* puzzle.image of undefined
               ELSE IF pid \in r.roundAnswered
                    THEN Emit(Emit(w1, Ev("new-round")), Ev("already-answered"))
                    ELSE Emit(w1, Ev("new-round"))
    IN  IF w2.crashed THEN w2
        ELSE Emit(Emit(w2, Ev("leaderboard-update")), Ev("player-joined"))

\* join-room, the branch of a new player
JoinNew(w, s, code, sessionId) ==
    LET r   == w.rooms[code]
        pid == NewPlayerId(r)
        tok == IF sessionId # 0 THEN sessionId ELSE NewToken(r)
        w1  == [w EXCEPT !.rooms[code].players = Append(@, NewPlayer(s)),
                         !.rooms[code].sessions = (tok :> pid) @@ @,
                         !.sockets[s].roomCode = code,
                         !.sockets[s].playerId = pid]
    IN  Emit(Emit(Emit(w1, EvJoined(pid, 0, FALSE)), Ev("leaderboard-update")),
             Ev("player-joined"))

joinRoom(w, s, code, sessionId) ==
    IF code \notin DOMAIN w.rooms THEN Emit(w, Ev("error-msg"))
    ELSE IF w.rooms[code].state = "setup" THEN Emit(w, Ev("error-msg"))
    ELSE IF KnownSession(w.rooms[code], sessionId) THEN Rejoin(w, s, code, sessionId)
    ELSE JoinNew(w, s, code, sessionId)

\* mutant of NotHost: every sender is taken for the host
NotHostNever(r, s) == FALSE

\* socket.id !== room.hostId
NotHost(r, s) == s # r.hostId

startGame(w, s, code, rounds, time) ==
    IF code \notin DOMAIN w.rooms \/ NotHost(w.rooms[code], s) THEN w
    ELSE LET n == Len(w.rooms[code].puzzles)
         IN  startRound([w EXCEPT
                 !.rooms[code].totalRounds = Min2(IF rounds # 0 THEN rounds ELSE n, n),
                 !.rooms[code].timePerRound = IF time # 0 THEN time ELSE DefaultTime,
                 !.rooms[code].currentRound = 0,
                 !.rooms[code].state = "playing",
                 !.reset = TRUE,
                 !.rooms[code].players = [p \in DOMAIN @ |->
                     [@[p] EXCEPT !.score = 0, !.guessedThisRound = FALSE]]], code)

\* mutant of AlreadyAnswered: the guard forgets who has answered
AlreadyAnsweredNever(r, pid) == FALSE

\* room.roundAnswered[playerId]
AlreadyAnswered(r, pid) == pid \in r.roundAnswered

\* submit-guess; elapsed is Date.now() - roundStartTime
submitGuess(w, s, code, guess, elapsed) ==
    IF code \notin DOMAIN w.rooms \/ w.rooms[code].state # "playing" THEN w
    ELSE LET r   == w.rooms[code]
             pid == w.sockets[s].playerId
         IN  IF pid \notin DOMAIN r.players \/ AlreadyAnswered(r, pid) THEN w
             ELSE IF ~HasPuzzle(r) THEN Throw(w)          \* puzzle.answer of undefined
             ELSE LET result == checkGuess(guess, Puzzle(r))
                      remaining == Max2(0, r.timePerRound - elapsed)
                      score == calcScore(remaining, r.timePerRound,
                                         result.match, result.num, result.den)
                      w1 == [w EXCEPT !.rooms[code].players[pid].score = @ + score,
                                      !.rooms[code].players[pid].guessedThisRound = TRUE,
                                      !.rooms[code].roundAnswered = @ \cup {pid}]
                      w2 == Emit(Emit(Emit(w1, [Ev("guess-result") EXCEPT
                                                   !.pid = pid, !.score = score]),
                                      Ev("leaderboard-update")), Ev("player-guessed"))
                  IN  IF result.match = "wrong" THEN Emit(w, Ev("guess-result"))
                      ELSE IF OnlineIds(w2.rooms[code]) \subseteq w2.rooms[code].roundAnswered
                           THEN endRound(w2, code)
                      ELSE w2

nextRound(w, s, code) ==
    IF code \notin DOMAIN w.rooms \/ NotHost(w.rooms[code], s) THEN w
    ELSE IF w.rooms[code].currentRound >= w.rooms[code].totalRounds - 1
         THEN endGame(w, code)
         ELSE startRound([w EXCEPT !.rooms[code].currentRound = @ + 1], code)

\* mutant of MarkOffline: the answer of the player who leaves is forgotten too
MarkOfflineForgets(w, code, pid) ==
    IF pid # NoPlayer /\ pid \in DOMAIN w.rooms[code].players
    THEN Emit(Emit([w EXCEPT !.rooms[code].players[pid].online = FALSE,
                             !.rooms[code].players[pid].socketId = NoSocket,
                             !.rooms[code].players[pid].guessedThisRound = FALSE,
                             !.rooms[code].roundAnswered = @ \ {pid}],
                   Ev("player-left")), Ev("leaderboard-update"))
    ELSE w

\* disconnect, first part: the socket's player goes offline
MarkOffline(w, code, pid) ==
    IF pid # NoPlayer /\ pid \in DOMAIN w.rooms[code].players
    THEN Emit(Emit([w EXCEPT !.rooms[code].players[pid].online = FALSE,
                             !.rooms[code].players[pid].socketId = NoSocket],
                   Ev("player-left")), Ev("leaderboard-update"))
    ELSE w

\* disconnect, second part: the host role goes to the player find() returns;
\* which one that is depends on the order of the random ids in room.players
TransferHost(w, code, p) ==
    IF p = NoPlayer THEN w
    ELSE Emit([w EXCEPT !.rooms[code].hostId = w.rooms[code].players[p].socketId],
              Ev("host-promoted"))

\* disconnect, third part: the cleanup timer
ScheduleReap(w, code) ==
    IF OnlineIds(w.rooms[code]) = {} /\ w.rooms[code].hostId = NoSocket
    THEN [w EXCEPT !.reapTimers = @ + 1]
    ELSE w

\* the players find() may return when socket s disconnects (NoPlayer: none)
HostCandidates(w, s) ==
    LET code == w.sockets[s].roomCode
        on   == IF code \in DOMAIN w.rooms /\ w.sockets[s].isHost
                THEN OnlineIds(w.rooms[code]) \ {w.sockets[s].playerId}
                ELSE {}
    IN  IF on = {} THEN {NoPlayer} ELSE on

disconnect(w, s, p) ==
    LET code == w.sockets[s].roomCode
        gone == [w EXCEPT !.sockets[s] = ClosedSocket]
    IN  IF code \notin DOMAIN w.rooms THEN gone
        ELSE ScheduleReap(TransferHost(MarkOffline(gone, code, w.sockets[s].playerId),
                                       code, p), code)

\* ---------------------------------------------------------- timer callbacks
Pending(w, kind) == {t \in w.timers : t.kind = kind}

\* setTimeout fires the callbacks of one round in the order of their delays
Due(w, t) ==
    /\ t \in w.timers
    /\ t.kind = "hint2" => Pending(w, "hint1") = {}
    /\ t.kind = "round" => Pending(w, "hint1") \cup Pending(w, "hint2") = {}

Fired(w, t) == [w EXCEPT !.timers = @ \ {t}]

hintCallback(w, t) == Emit(Fired(w, t), Ev("hint"))
roundCallback(w, t) == endRound(Fired(w, t), Code)
advanceCallback(w, t) ==
    startRound([Fired(w, t) EXCEPT !.rooms[Code].currentRound = @ + 1], Code)
endGameCallback(w, t) == endGame(Fired(w, t), Code)

\* the cleanup callback of the disconnect handler
reapCallback(w) ==
    LET w1 == [w EXCEPT !.reapTimers = @ - 1]
    IN  IF Code \in DOMAIN w.rooms /\ OnlineIds(w.rooms[Code]) = {}
        THEN [clearTimers(LeaveRound(w1), Code) EXCEPT
                 !.rooms = [c \in DOMAIN @ \ {Code} |-> @[c]]]
        ELSE w1

\* ------------------------------------------------------------------ actions
\* the players of the room, before and after a handler
Before == IF Code \in DOMAIN rooms THEN rooms[Code].players ELSE <<>>
After(w) == IF Code \in DOMAIN w.rooms THEN w.rooms[Code].players ELSE <<>>
Gained(w) == {p \in DOMAIN Before \cap DOMAIN After(w) :
                After(w)[p].score > Before[p].score}
WentOffline(w) == {p \in DOMAIN Before \cap DOMAIN After(w) :
                     Before[p].online /\ ~After(w)[p].online}
Offline(w) == {p \in DOMAIN After(w) : ~After(w)[p].online}

\* the history variables after a handler that left w
Remember(w) ==
    \E gained \in {Gained(w)}, went \in {WentOffline(w)}, off \in {Offline(w)} :
        /\ scored' = (IF w.began THEN {} ELSE scored) \cup gained
        /\ issued' = IF Code \in DOMAIN w.rooms
                     THEN [t \in DOMAIN issued \cup DOMAIN w.rooms[Code].sessions |->
                              IF t \in DOMAIN issued THEN issued[t]
                              ELSE w.rooms[Code].sessions[t]]
                     ELSE issued
        /\ disc' = [p \in PlayerIds |->
                       IF p \in went THEN Before[p].score
                       ELSE IF p \in off THEN disc[p]
                       ELSE -1]
        /\ since' = {p \in off \ went : p \in since \/ w.reset \/ p \in gained}
        /\ call' = call

\* a handler ran to completion: what it left is the next state
Do(result) ==
    \E w \in {result} :
        IF w = Now THEN UNCHANGED vars
        ELSE /\ rooms' = w.rooms
             /\ sockets' = w.sockets
             /\ timers' = w.timers
             /\ reapTimers' = w.reapTimers
             /\ crashed' = w.crashed
             /\ Remember(w)

IsOpen(s) == s \in DOMAIN sockets /\ sockets[s].open

Init ==
    /\ rooms = (Code :> NewRoom)
    /\ sockets = <<>>
    /\ timers = {}
    /\ reapTimers = 0
    /\ crashed = FALSE
    /\ scored = {}
    /\ issued = <<>>
    /\ disc = [p \in PlayerIds |-> -1]
    /\ since = {}
    /\ call = NoCall

\* io.on('connection'): a new socket, with a new id
Connect ==
    /\ ~crashed
    /\ Len(sockets) < NSockets
    /\ Do([Now EXCEPT !.sockets = Append(@, NewSocket)])

Upload(code, n) ==
    /\ ~crashed
    /\ Do(upload(Now, code, n))

HostJoin(s, code) ==
    /\ ~crashed
    /\ IsOpen(s)
    /\ Do(hostJoin(Now, s, code))

\* the room has a player record left for a new player
CanJoin(code, sessionId) ==
    code \in DOMAIN rooms =>
        /\ sessionId \in SessionArgs(rooms[code])
        /\ KnownSession(rooms[code], sessionId) \/ Len(rooms[code].players) < MaxPlayers

JoinRoom(s, code, sessionId) ==
    /\ ~crashed
    /\ IsOpen(s)
    /\ CanJoin(code, sessionId)
    /\ Do(joinRoom(Now, s, code, sessionId))

StartGame(s, code, rounds, time) ==
    /\ ~crashed
    /\ IsOpen(s)
    /\ Do(startGame(Now, s, code, rounds, time))

SubmitGuess(s, code, guess) ==
    /\ ~crashed
    /\ IsOpen(s)
    /\ code \in DOMAIN rooms
    /\ \E elapsed \in Elapsed(rooms[code].timePerRound) :
          Do(submitGuess(Now, s, code, guess, elapsed))

NextRound(s, code) ==
    /\ ~crashed
    /\ IsOpen(s)
    /\ Do(nextRound(Now, s, code))

Disconnect(s) ==
    /\ ~crashed
    /\ IsOpen(s)
    /\ \E p \in HostCandidates(Now, s) : Do(disconnect(Now, s, p))

FireHint(t) ==
    /\ ~crashed
    /\ Due(Now, t)
    /\ t.kind \in {"hint1", "hint2"}
    /\ Do(hintCallback(Now, t))

FireRound(t) ==
    /\ ~crashed
    /\ Due(Now, t)
    /\ t.kind = "round"
    /\ Do(roundCallback(Now, t))

FireAdvance(t) ==
    /\ ~crashed
    /\ Due(Now, t)
    /\ t.kind = "advance"
    /\ Do(advanceCallback(Now, t))

FireEndGame(t) ==
    /\ ~crashed
    /\ Due(Now, t)
    /\ t.kind = "endgame"
    /\ Do(endGameCallback(Now, t))

Reap ==
    /\ ~crashed
    /\ reapTimers > 0
    /\ Do(reapCallback(Now))

\* ------------------------------------------------------------ specification
Next ==
    \/ Connect
    \/ \E code \in RoomCodes, n \in UploadSizes : Upload(code, n)
    \/ \E s \in Sockets, code \in RoomCodes : HostJoin(s, code)
    \/ \E s \in Sockets, code \in RoomCodes, sid \in {0} \cup Tokens : JoinRoom(s, code, sid)
    \/ \E s \in Sockets, code \in RoomCodes, rounds \in RoundsArgs, time \in TimeArgs :
          StartGame(s, code, rounds, time)
    \/ \E s \in Sockets, code \in RoomCodes, guess \in Guesses : SubmitGuess(s, code, guess)
    \/ \E s \in Sockets, code \in RoomCodes : NextRound(s, code)
    \/ \E s \in Sockets : Disconnect(s)
    \/ \E t \in timers : FireHint(t)
    \/ \E t \in timers : FireRound(t)
    \/ \E t \in timers : FireAdvance(t)
    \/ \E t \in timers : FireEndGame(t)
    \/ Reap

Spec == Init /\ [][Next]_vars

\* ------------------------------------------------------------ the registry
\* The server from its start: create-room and upload, for the rooms of a
\* registry that holds MaxRooms codes at most.
NDraws == 2          \* outcomes of one Math.random() draw: the first NDraws characters
MaxRooms == 2        \* codes in the registry

DrawSeqs == [1..CodeLen -> 1..NDraws]

\* POST /api/create-room
createRoom(w, draws) ==
    [w EXCEPT !.rooms = [c \in DOMAIN @ \cup {generateRoomCode(draws)} |->
                            IF c = generateRoomCode(draws) THEN NewRoom ELSE @[c]]]

InitRegistry ==
    /\ rooms = <<>>
    /\ sockets = <<>>
    /\ timers = {}
    /\ reapTimers = 0
    /\ crashed = FALSE
    /\ scored = {}
    /\ issued = <<>>
    /\ disc = [p \in PlayerIds |-> -1]
    /\ since = {}
    /\ call = NoCall

CreateRoom(draws) ==
    /\ Cardinality(DOMAIN rooms \cup {generateRoomCode(draws)}) <= MaxRooms
    /\ rooms' = createRoom(Now, draws).rooms
    /\ UNCHANGED <<sockets, timers, reapTimers, crashed, scored, issued, disc, since, call>>

UploadTo(code, n) ==
    /\ code \in DOMAIN rooms
    /\ rooms' = upload(Now, code, n).rooms
    /\ UNCHANGED <<sockets, timers, reapTimers, crashed, scored, issued, disc, since, call>>

NextRegistry ==
    \/ \E draws \in DrawSeqs : CreateRoom(draws)
    \/ \E draws \in DrawSeqs : UploadTo(generateRoomCode(draws), MaxPuzzles)

SpecRegistry == InitRegistry /\ [][NextRegistry]_vars

\* -------------------------------------------------- the room before a game
\* The same server with one more connection and no game: sockets connect, join
\* as host or player and disconnect, and the cleanup timers fire.  Node runs
\* every timer that is due, so the cleanup callback is weakly fair.
NHostSockets == 3    \* connections opened during a run of SpecHost

ConnectHost ==
    /\ ~crashed
    /\ Len(sockets) < NHostSockets
    /\ Do([Now EXCEPT !.sockets = Append(@, NewSocket)])

NextHost ==
    \/ ConnectHost
    \/ Upload(Code, MaxPuzzles)
    \/ \E s \in 1..NHostSockets : HostJoin(s, Code)
    \/ \E s \in 1..NHostSockets, sid \in {0} \cup Tokens : JoinRoom(s, Code, sid)
    \/ \E s \in 1..NHostSockets : Disconnect(s)
    \/ Reap

SpecHost == Init /\ [][NextHost]_vars /\ WF_vars(Reap)

\* ------------------------------------------------------- one game, started
\* The server from the start of a game on: a player joined the lobby and left
\* before any host was there (the cleanup timer of that disconnect is pending),
\* then a host joined and started the game.  From there on sockets connect,
\* join, guess and disconnect, the host sends next-round, and every timer that
\* is due fires; nobody uploads or sends start-game again.
Fresh == [rooms |-> (Code :> NewRoom), sockets |-> <<>>, timers |-> {},
          reapTimers |-> 0, crashed |-> FALSE,
          out |-> <<>>, began |-> FALSE, reset |-> FALSE]

\* io.on('connection')
connect(w) == [w EXCEPT !.sockets = Append(@, NewSocket)]

LobbyLeft ==
    disconnect(joinRoom(connect(upload(Fresh, Code, MaxPuzzles)), 1, Code, 0), 1, NoPlayer)

GameStarted ==
    startGame(hostJoin(connect(LobbyLeft), 2, Code), 2, Code, 0, 2)

InitGame ==
    /\ rooms = GameStarted.rooms
    /\ sockets = GameStarted.sockets
    /\ timers = GameStarted.timers
    /\ reapTimers = GameStarted.reapTimers
    /\ crashed = GameStarted.crashed
    /\ scored = {}
    /\ issued = GameStarted.rooms[Code].sessions
    /\ disc = [p \in PlayerIds |-> IF p = 1 THEN 0 ELSE -1]
    /\ since = {1}
    /\ call = NoCall

NextGame ==
    \/ ConnectHost
    \/ \E s \in 1..NHostSockets, sid \in {0} \cup Tokens : JoinRoom(s, Code, sid)
    \/ \E s \in 1..NHostSockets, guess \in Guesses : SubmitGuess(s, Code, guess)
    \/ \E s \in 1..NHostSockets : NextRound(s, Code)
    \/ \E s \in 1..NHostSockets : Disconnect(s)
    \/ \E t \in timers : FireHint(t)
    \/ \E t \in timers : FireRound(t)
    \/ \E t \in timers : FireAdvance(t)
    \/ \E t \in timers : FireEndGame(t)
    \/ Reap

\* Node runs every timer callback that is due
TimersFire ==
    /\ WF_vars(\E t \in timers : FireHint(t))
    /\ WF_vars(\E t \in timers : FireRound(t))
    /\ WF_vars(\E t \in timers : FireAdvance(t))
    /\ WF_vars(\E t \in timers : FireEndGame(t))
    /\ WF_vars(Reap)

SpecGame == InitGame /\ [][NextGame]_vars /\ TimersFire

\* ------------------------------------------------------- checkGuess alone
\* checkGuess applied to every guess and answer of up to MaxStrLen characters
\* over GuessChars: an article, a capital, a letter, a space and a character
\* normalize drops.
MaxStrLen == 3       \* characters of a guess or an answer

GuessChars == {"a", "A", "b", " ", "!"}
Strs == UNION {[1..k -> GuessChars] : k \in 0..MaxStrLen}

\* the server before any room exists
NoRooms ==
    /\ rooms = <<>>
    /\ sockets = <<>>
    /\ timers = {}
    /\ reapTimers = 0
    /\ crashed = FALSE
    /\ scored = {}
    /\ issued = <<>>
    /\ disc = [p \in PlayerIds |-> -1]
    /\ since = {}

InitCheckGuess ==
    /\ NoRooms
    /\ call \in {[fn |-> "checkGuess", args |-> <<guess, answer>>, result |-> <<>>] :
                    guess \in Strs, answer \in Strs}

CallCheckGuess ==
    /\ call.fn = "checkGuess"
    /\ call.result = <<>>
    /\ call' = [call EXCEPT !.result = <<checkGuess(call.args[1], call.args[2])>>]
    /\ UNCHANGED <<rooms, sockets, timers, reapTimers, crashed, scored, issued, disc, since>>

SpecCheckGuess == InitCheckGuess /\ [][CallCheckGuess]_vars

\* -------------------------------------------------------- calcScore alone
\* calcScore applied to every remaining time up to a total time of at most
\* MaxTime seconds, both scoring match kinds and every similarity num/den with
\* den at most MaxDen.
MaxTime == 4         \* seconds of a round
MaxDen == 3          \* denominator of a similarity

ScoreArgs ==
    {<<remaining, total, kind, num, den>> :
        remaining \in 0..MaxTime, total \in 1..MaxTime, kind \in {"correct", "partial"},
        num \in 0..MaxDen, den \in 1..MaxDen}

InitCalcScore ==
    /\ NoRooms
    /\ call \in {[fn |-> "calcScore", args |-> a, result |-> <<>>] :
                    a \in {b \in ScoreArgs : b[1] <= b[2] /\ b[4] <= b[5]}}

CallCalcScore ==
    /\ call.fn = "calcScore"
    /\ call.result = <<>>
    /\ call' = [call EXCEPT !.result =
                   <<calcScore(call.args[1], call.args[2], call.args[3],
                               call.args[4], call.args[5])>>]
    /\ UNCHANGED <<rooms, sockets, timers, reapTimers, crashed, scored, issued, disc, since>>

SpecCalcScore == InitCalcScore /\ [][CallCalcScore]_vars

\* ==================================================================== claims
Live == Code \in DOMAIN rooms
Room == rooms[Code]
OpenSockets == {s \in DOMAIN sockets : sockets[s].open}
Playing == Live /\ ~crashed /\ Room.state = "playing"

\* C1: a player scores at most once per round: once a submit-guess has raised
\* the score of player p in the current round, any further submit-guess sent for
\* p before the next round begins leaves the room, the timers and every other
\* part of the state as they are.
C1_ScoresOncePerRound ==
    \A s \in OpenSockets, guess \in Guesses :
        (Live /\ ~crashed /\ sockets[s].playerId \in scored) =>
            \A elapsed \in Elapsed(Room.timePerRound) :
                submitGuess(Now, s, Code, guess, elapsed) = Now

\* C1, its case: a round is on, a player has scored in it and can guess again
C1_Witness ==
    /\ Playing
    /\ \E s \in OpenSockets : sockets[s].playerId \in scored
    /\ Room.roundTimer # NoTimer

\* C2: while a round runs, the round ends as soon as every online player has
\* answered, whichever event made it so: no state has a round timer pending
\* while the online players are all in roundAnswered.
C2_RoundEndsWhenAllAnswered ==
    (Playing /\ Pending(Now, "round") # {}) =>
        ~(OnlineIds(Room) # {} /\ OnlineIds(Room) \subseteq Room.roundAnswered)

Reply(w) == IF w.out # <<>> /\ w.out[1].ev = "joined" THEN w.out[1] ELSE Ev("none")

\* C4 as stated: joining with a token the room issued, for a player who is
\* offline, is answered with the player the token was first bound to and the
\* score that player had when disconnecting, whatever happened since.
C4_ScoreAtDisconnect ==
    \A s \in OpenSockets, t \in DOMAIN issued :
        (Live /\ ~crashed /\ disc[issued[t]] >= 0) =>
            Reply(joinRoom(Now, s, Code, t)) = EvJoined(issued[t], disc[issued[t]], TRUE)

\* C4 amended: joining with a token the room issued is answered with the player
\* the token was first bound to and the score that player holds now; that is the
\* score at disconnect unless, since then, a start-game reset the scores or a
\* guess was credited to the player.
C4_ScoreRestored ==
    \A s \in OpenSockets, t \in DOMAIN issued :
        (Live /\ ~crashed) =>
            LET p == issued[t]
                reply == Reply(joinRoom(Now, s, Code, t))
            IN  /\ reply = EvJoined(p, Room.players[p].score, TRUE)
                /\ (disc[p] >= 0 /\ p \notin since) => reply.score = disc[p]

\* C4, its case: a player who scored is offline, nothing touched the score
\* since, and a socket is there to come back on
C4_Witness ==
    /\ Live /\ ~crashed
    /\ OpenSockets # {}
    /\ \E t \in DOMAIN issued :
          disc[issued[t]] > 0 /\ issued[t] \notin since /\ Room.state = "playing"

EndOfPhase == {"round", "advance", "endgame"}
Tracked(r) == (IF r.roundTimer # NoTimer THEN {r.roundTimer} ELSE {}) \cup Range(r.hintTimers)

\* C7: a room never has more than one end-of-phase timer (round end or
\* auto-advance) or more than two hint timers pending, and no timer of an
\* earlier set is pending beside a newer set: every pending timer is one the
\* room holds the handle of, and hint timers are pending only beside their
\* round-end timer.
C7_OneTimerSet ==
    /\ Cardinality({t \in timers : t.kind \in EndOfPhase}) <= 1
    /\ Cardinality(Pending(Now, "hint1")) <= 1
    /\ Cardinality(Pending(Now, "hint2")) <= 1
    /\ Cardinality(TimerIds(timers)) = Cardinality(timers)
    /\ IF Live THEN TimerIds(timers) \subseteq Tracked(Room) ELSE timers = {}
    /\ Pending(Now, "hint1") \cup Pending(Now, "hint2") # {} => Pending(Now, "round") # {}

\* C7, its case: the second round has ended and the timer that follows it is
\* the only timer pending
C7_Witness ==
    /\ Playing
    /\ Room.currentRound = 1
    /\ {t.kind : t \in timers} = {"endgame"}

\* C8: finished is terminal: no step takes a finished room to another state.
C8_FinishedIsTerminal ==
    [][(Live /\ Room.state = "finished") =>
          (Code \in DOMAIN rooms' => rooms'[Code].state = "finished")]_vars

\* C9: while a room is playing, 0 <= currentRound < totalRounds and
\* puzzles[currentRound] is a puzzle.
C9_RoundIndexInRange ==
    Playing =>
        /\ 0 <= Room.currentRound
        /\ Room.currentRound < Room.totalRounds
        /\ HasPuzzle(Room)

\* C10: a room becomes finished only from playing, and only when the current
\* round is the last one (currentRound = totalRounds - 1).
C10_FinishedOnlyAfterLastRound ==
    [][(Live /\ Room.state # "finished" /\ Code \in DOMAIN rooms'
           /\ rooms'[Code].state = "finished") =>
          (Room.state = "playing" /\ Room.currentRound = Room.totalRounds - 1)]_vars

\* C11: a start-game or a next-round from a socket that is not the room's host
\* is ignored in silence: the room, the timers and everything else stay as they
\* are and no event is emitted, not even an error.
C11_NonHostIgnored ==
    \A s \in OpenSockets :
        (Live /\ ~crashed /\ s # Room.hostId) =>
            /\ nextRound(Now, s, Code) = Now
            /\ \A rounds \in RoundsArgs, time \in TimeArgs :
                  startGame(Now, s, Code, rounds, time) = Now

\* C11, its case: a game is on, its host is connected, and so is a socket that
\* is not the host
C11_Witness ==
    /\ Playing
    /\ Room.hostId \in OpenSockets
    /\ OpenSockets \ {Room.hostId} # {}
    /\ timers # {}

\* what C12 asks of the state a start-game leaves
RoundZeroBegun(w) ==
    LET r == w.rooms[Code]
    IN  /\ ~w.crashed
        /\ r.state = "playing"
        /\ r.currentRound = 0
        /\ \A p \in DOMAIN r.players :
              r.players[p].score = 0 /\ ~r.players[p].guessedThisRound
        /\ r.roundAnswered = {}
        /\ {t.kind : t \in w.timers} = {"hint1", "hint2", "round"}
        /\ TimerIds(w.timers) = Tracked(r)

\* C12: a start-game from the host of a room in lobby leaves the room playing
\* round 0 with every score 0, every guessedThisRound false, roundAnswered
\* empty and the hint and round-end timers of round 0 pending.
C12_StartFromLobby ==
    \A s \in OpenSockets :
        (Live /\ ~crashed /\ Room.state = "lobby" /\ s = Room.hostId) =>
            \A rounds \in RoundsArgs, time \in TimeArgs :
                RoundZeroBegun(startGame(Now, s, Code, rounds, time))

\* C13: when the socket that is the room's host disconnects and a player is
\* online afterwards, the host becomes the socket of a player who is online
\* afterwards, whether the socket became host by host-join or by promotion.
C13_HostTransferred ==
    \A s \in OpenSockets :
        (Live /\ ~crashed /\ s = Room.hostId) =>
            \A p \in HostCandidates(Now, s) :
                LET r == disconnect(Now, s, p).rooms[Code]
                IN  OnlineIds(r) # {} =>
                        \E q \in OnlineIds(r) : r.hostId = r.players[q].socketId

\* C14: a room leaves the registry only at a moment when no player of it is
\* online and it has no host; a cleanup timer that expires after a host joined
\* or a player came back deletes nothing.
C14_ReapedOnlyWhenEmpty ==
    [][(Live /\ Code \notin DOMAIN rooms') =>
          (OnlineIds(Room) = {} /\ Room.hostId = NoSocket)]_vars

\* the room has no online player and its host has disconnected
Abandoned ==
    /\ Live /\ ~crashed
    /\ OnlineIds(Room) = {}
    /\ Room.hostId # NoSocket
    /\ ~sockets[Room.hostId].open

\* C15: a room with no online player whose host has disconnected is deleted in
\* the end, unless a join or a host-join brings somebody back (timers that are
\* due do fire).
C15_AbandonedRoomDeleted == Abandoned ~> (~Live \/ ~Abandoned)

\* C16: create-room never gives a new room the code of a room that is in the
\* registry: whatever the random draws, creating a room leaves every room of
\* the registry as it was.
C16_CodeNeverReused ==
    \A draws \in DrawSeqs :
        /\ generateRoomCode(draws) \notin DOMAIN rooms
        /\ \A c \in DOMAIN rooms : createRoom(Now, draws).rooms[c] = rooms[c]

\* C17: the disconnect of a socket only sets the online flag of the socket's
\* player to false and clears the socket recorded for it: no player leaves the
\* room, and the ids, the scores, the sessions, roundAnswered, the state, the
\* round index and the timers stay as they are (the host may change).
C17_DisconnectOnlyMarksOffline ==
    \A s \in OpenSockets :
        (Live /\ ~crashed /\ sockets[s].roomCode = Code) =>
            \A p \in HostCandidates(Now, s) :
                LET w   == disconnect(Now, s, p)
                    r   == w.rooms[Code]
                    pid == sockets[s].playerId
                IN  /\ w.timers = timers
                    /\ [r EXCEPT !.hostId = Room.hostId] =
                          IF pid \in DOMAIN Room.players
                          THEN [Room EXCEPT !.players[pid].online = FALSE,
                                            !.players[pid].socketId = NoSocket]
                          ELSE Room

\* C17, its case: in a game a player who has answered and holds a score is
\* connected, and another one has already gone offline with its score
C17_Witness ==
    /\ Playing
    /\ \E s \in OpenSockets :
          /\ sockets[s].playerId \in Room.roundAnswered
          /\ Room.players[sockets[s].playerId].score > 0
    /\ \E q \in DOMAIN Room.players :
          ~Room.players[q].online /\ Room.players[q].score > 0 /\ q \in Room.roundAnswered

\* how many events named name a handler emitted
Count(w, name) == Cardinality({i \in DOMAIN w.out : w.out[i].ev = name})

\* C18: a next-round of the host that arrives after a round has ended, while
\* the timer that follows the round is pending, cancels that timer, so it never
\* fires: the round index goes up by exactly one and one round begins, or, after
\* the last round, the game is over exactly once and no timer is left.
C18_NextRoundCancelsAutoAdvance ==
    \A s \in OpenSockets :
        (Playing /\ s = Room.hostId /\ Pending(Now, "advance") \cup Pending(Now, "endgame") # {}) =>
            LET w == nextRound(Now, s, Code)
                r == w.rooms[Code]
            IN  /\ ~w.crashed
                /\ Pending(w, "advance") \cup Pending(w, "endgame") = {}
                /\ \A t \in w.timers : ~t.stale
                /\ IF Pending(Now, "advance") # {}
                   THEN /\ r.state = "playing"
                        /\ r.currentRound = Room.currentRound + 1
                        /\ Count(w, "new-round") = 1
                        /\ Count(w, "game-over") = 0
                   ELSE /\ r.state = "finished"
                        /\ r.currentRound = Room.currentRound
                        /\ Count(w, "game-over") = 1
                        /\ Count(w, "new-round") = 0
                        /\ w.timers = {}

\* C18, its case: the first round has ended, the auto-advance timer is pending
\* and the host is connected
C18_Witness ==
    /\ Playing
    /\ Room.currentRound = 0
    /\ Pending(Now, "advance") # {}
    /\ Room.hostId \in OpenSockets

\* C19: a submit-guess sent while the room is not playing is answered with an
\* error notification and changes nothing; a join-room sent while the room is
\* in setup is answered with an error notification and adds no player and no
\* session.
C19_InvalidStateSurfaced ==
    \A s \in OpenSockets :
        (Live /\ ~crashed) =>
            /\ Room.state # "playing" =>
                  \A guess \in Guesses, elapsed \in Elapsed(Room.timePerRound) :
                      LET w == submitGuess(Now, s, Code, guess, elapsed)
                      IN  "error-msg" \in Names(w) /\ w.rooms = rooms
            /\ Room.state = "setup" =>
                  \A t \in SessionArgs(Room) :
                      LET w == joinRoom(Now, s, Code, t)
                      IN  "error-msg" \in Names(w) /\ w.rooms = rooms

\* the step is a start-game of the host
StartGameStep ==
    \E s \in OpenSockets, rounds \in RoundsArgs, time \in TimeArgs :
        /\ ~NotHost(Room, s)
        /\ rooms' = startGame(Now, s, Code, rounds, time).rooms

\* C20: no score is ever negative, and no step other than a start-game lowers
\* the score of a player.
C20_ScoresNeverDecrease ==
    [][(Code \in DOMAIN rooms') =>
          /\ \A p \in DOMAIN rooms'[Code].players : rooms'[Code].players[p].score >= 0
          /\ (Live /\ ~StartGameStep) =>
                \A p \in DOMAIN Room.players :
                    /\ p \in DOMAIN rooms'[Code].players
                    /\ rooms'[Code].players[p].score >= Room.players[p].score]_vars

\* C20, its case: a player has scored in two rounds of one game, once with a
\* correct and once with a partial match
C20_Witness ==
    /\ Playing
    /\ \E p \in DOMAIN Room.players : Room.players[p].score > 500

\* C21: every player in roundAnswered is online.
C21_AnsweredAreOnline ==
    (Live /\ ~crashed) => Room.roundAnswered \subseteq OnlineIds(Room)

\* C22: whenever the guess and the answer have the same normalized form,
\* checkGuess answers correct with similarity 1, also when that form is the
\* empty string.
C22_EqualNormalizedIsCorrect ==
    (call.fn = "checkGuess" /\ call.result # <<>>
        /\ normalize(call.args[1]) = normalize(call.args[2])) =>
            call.result[1] = Result("correct", 1, 1)

\* C23: for a fixed match kind, similarity and total time, calcScore does not
\* fall when the remaining time rises: the score for a remaining time is at least
\* the score for every shorter remaining time; and a correct match scores at
\* least 50.
C23_ScoreMonotoneInTime ==
    (call.fn = "calcScore" /\ call.result # <<>>) =>
        /\ \A shorter \in 0..call.args[1] :
              call.result[1] >= calcScore(shorter, call.args[2], call.args[3],
                                          call.args[4], call.args[5])
        /\ call.args[3] = "correct" => call.result[1] >= MinBase

\* C23, its case: a partial match with time left scored more than it would
\* have with no time left
C23_Witness ==
    /\ call.fn = "calcScore" /\ call.result # <<>>
    /\ call.args[3] = "partial"
    /\ call.args[1] > 0
    /\ call.result[1] > calcScore(0, call.args[2], call.args[3], call.args[4], call.args[5])

\* the round has ended and the timer that follows it is pending
InGap == Playing /\ Pending(Now, "advance") \cup Pending(Now, "endgame") # {}

\* C24: between the round-end of a round and the next new-round, no
\* submit-guess changes a score or roundAnswered.
C24_NoScoringInGap ==
    \A s \in OpenSockets, guess \in Guesses :
        InGap =>
            \A elapsed \in Elapsed(Room.timePerRound) :
                LET w == submitGuess(Now, s, Code, guess, elapsed)
                IN  /\ w.rooms[Code].roundAnswered = Room.roundAnswered
                    /\ \A p \in DOMAIN Room.players :
                          w.rooms[Code].players[p].score = Room.players[p].score

\* C25: a round has one round-end at most: once the round-end of a round is
\* out, nothing emits another before the next new-round or game-over; and a
\* game has one game-over at most: once the room is finished, nothing emits
\* another.
C25_OneRoundEndOneGameOver ==
    \A s \in OpenSockets :
        /\ InGap =>
              \A guess \in Guesses, elapsed \in Elapsed(Room.timePerRound) :
                  "round-end" \notin Names(submitGuess(Now, s, Code, guess, elapsed))
        /\ (Live /\ ~crashed /\ Room.state = "finished") =>
              "game-over" \notin Names(nextRound(Now, s, Code))

\* C26: a player is online exactly when the socket recorded for it is
\* connected.
C26_OnlineIffConnected ==
    (Live /\ ~crashed) =>
        \A p \in DOMAIN Room.players :
            Room.players[p].online <=>
                (Room.players[p].socketId # NoSocket /\ IsOpen(Room.players[p].socketId))

\* the step is the host-join of a socket
HostJoinStep ==
    \E s \in OpenSockets :
        /\ rooms' = hostJoin(Now, s, Code).rooms
        /\ sockets' = hostJoin(Now, s, Code).sockets

\* the step is the disconnect of the socket that is the host
HostLeavesStep ==
    /\ Room.hostId \in OpenSockets
    /\ ~sockets'[Room.hostId].open

\* C27: the host of a room changes only by a host-join or by the disconnect of
\* the socket that is the host; the disconnect of any other socket, one that
\* was host before another host-join included, leaves it as it is.
C27_HostChangesOnlyByHost ==
    [][(Live /\ Code \in DOMAIN rooms' /\ rooms'[Code].hostId # Room.hostId) =>
          (HostJoinStep \/ HostLeavesStep)]_vars

\* C28: a room with a hint, round-end or auto-advance timer pending is
\* playing; a next-round sent to a room in setup, lobby or finished begins no
\* round and schedules no timer.
C28_TimersOnlyWhilePlaying ==
    /\ (\E t \in timers : t.kind \in {"hint1", "hint2", "round", "advance"}) =>
          (Live /\ Room.state = "playing")
    /\ \A s \in OpenSockets :
          (Live /\ ~crashed /\ Room.state # "playing") =>
              LET w == nextRound(Now, s, Code)
              IN  w.timers = timers /\ "new-round" \notin Names(w)

\* C29: a room that is playing with totalRounds >= 1 reaches finished in the
\* end when no start-game follows, whatever joins, guesses, disconnects and
\* next-rounds come in between (timers that are due do fire).
C29_GameFinishes ==
    (Playing /\ Room.totalRounds >= 1) ~> (Live /\ Room.state = "finished")

\* C30: in every reachable state a player's guessedThisRound is true exactly
\* when the player's id is in roundAnswered.
C30_GuessedIffAnswered ==
    Live => \A p \in DOMAIN Room.players :
                Room.players[p].guessedThisRound <=> p \in Room.roundAnswered

\* one player has answered this round and another has not
C30_Witness ==
    /\ Playing
    /\ \E p, q \in DOMAIN Room.players :
          /\ Room.players[p].guessedThisRound /\ p \in Room.roundAnswered
          /\ ~Room.players[q].guessedThisRound /\ q \notin Room.roundAnswered

====
